---- MODULE Spec2Model ----
(***************************************************************************)
(* Model of demolyzer/stats.py: the DemoAnalyzer class (player index,      *)
(* death statistics, per-player angle/position deltas handed to the        *)
(* plotting library, the CSV cache of the constructor) and the helper      *)
(* _normalize_angle.                                                       *)
(*                                                                         *)
(* A DataFrame is a sequence of rows; a row is a record holding the        *)
(* columns the code reads.  A missing value of the steamId column is the   *)
(* single value NaN.  pandas treats it in two ways, both modelled:         *)
(*   - hashing operations (drop_duplicates, unique) take NaN as one value  *)
(*     equal to itself;                                                    *)
(*   - the elementwise comparison  column == value  is false whenever      *)
(*     either side is NaN.                                                 *)
(* A Python dict is a sequence of [k, v] records in insertion order.       *)
(* An optional integer (int or None) is <<n>> or <<>>.                     *)
(***************************************************************************)
EXTENDS Integers, Sequences, FiniteSets, TLC

VARIABLES df, ret_players, ret_num_players, ret_death_stats, fig,
          angle, mult, ret_normalize,
          demo, csv, self_df, last, extractions

vars == <<df, ret_players, ret_num_players, ret_death_stats, fig,
          angle, mult, ret_normalize,
          demo, csv, self_df, last, extractions>>

analysis_vars == <<df, ret_players, ret_num_players, ret_death_stats, fig>>
angle_vars == <<angle, mult, ret_normalize>>
cache_vars == <<demo, csv, self_df, last, extractions>>

(***************************************************************************)
(* Bounds and input domains.                                               *)
(***************************************************************************)
MaxRows == 4
MaxStatRows == 3
MaxKinRows == 3
MaxAngle == 400
MaxTurns == 2
MaxDemoVersion == 3
MaxExtractions == 4

NaN == "nan"
None == <<>>
Some(n) == <<n>>

SteamIds == {"P", "Q", NaN}
Names == {"alice", "bob"}
States == {"Alive", "Death", "Respawning"}
\* Angle and position readings <<pitch, view, <<x, y>>>>: the view angles lie on
\* both sides of the 0/360 wrap, the positions one unit step apart.
Readings == { <<0, 10, <<0, 0>>>>, <<5, 350, <<1, 0>>>>,
              <<0, 350, <<0, 1>>>>, <<5, 10, <<1, 1>>>> }

Row(t, id, nm, st, p, v, xy) ==
    [tick |-> t, steamId |-> id, name |-> nm, state |-> st,
     pitch |-> p, view |-> v, x |-> xy[1], y |-> xy[2]]

\* Tables whose steamId and name columns vary (the player index reads no
\* other column).  The tick of a row is its position, so ticks ascend within
\* every player's partition.
IndexCells == SteamIds \X Names
IndexRow(i, c) == Row(i, c[1], c[2], "Alive", 0, 10, <<0, 0>>)
IsIndexTable(t) ==
    \E n \in 0..MaxRows : \E c \in [1..n -> IndexCells] :
        t = [i \in 1..n |-> IndexRow(i, c[i])]

\* Tables whose steamId and state columns vary.
StatCells == SteamIds \X States
StatRow(i, c) == Row(i, c[1], "alice", c[2], 0, 10, <<0, 0>>)
IsStatTable(t) ==
    \E n \in 0..MaxStatRows : \E c \in [1..n -> StatCells] :
        t = [i \in 1..n |-> StatRow(i, c[i])]

\* Tables whose steamId, angle and position columns vary.
KinCells == SteamIds \X Readings
KinRow(i, c) == Row(i, c[1], "alice", "Alive", c[2][1], c[2][2], c[2][3])
IsKinTable(t) ==
    \E n \in 0..MaxKinRows : \E c \in [1..n -> KinCells] :
        t = [i \in 1..n |-> KinRow(i, c[i])]

(***************************************************************************)
(* pandas / Python primitives used by the code.                            *)
(***************************************************************************)
isna(v) == v = NaN

\* column == value, elementwise: never true for a missing value.
ElemEq(a, b) == ~isna(a) /\ ~isna(b) /\ a = b

\* Faulty variant: keep="last".
drop_duplicates_last(t) ==
    LET F[i \in 0..Len(t)] ==
          IF i = 0 THEN <<>>
          ELSE IF \E j \in (i+1)..Len(t) : t[j].steamId = t[i].steamId
               THEN F[i-1] ELSE Append(F[i-1], t[i])
    IN F[Len(t)]

\* DataFrame.drop_duplicates(subset="players_info.steamId"): keep="first",
\* row order preserved, missing values equal to one another.
drop_duplicates(t) ==
    LET F[i \in 0..Len(t)] ==
          IF i = 0 THEN <<>>
          ELSE IF \E j \in 1..(i-1) : t[j].steamId = t[i].steamId
               THEN F[i-1] ELSE Append(F[i-1], t[i])
    IN F[Len(t)]

\* Series.unique(): the distinct values in order of first appearance; a
\* missing value is one of them.
unique(s) ==
    LET F[i \in 0..Len(s)] ==
          IF i = 0 THEN <<>>
          ELSE IF \E j \in 1..Len(F[i-1]) : F[i-1][j] = s[i]
               THEN F[i-1] ELSE Append(F[i-1], s[i])
    IN F[Len(s)]

\* dict(zip(keys, values)): a repeated key keeps its place, takes the
\* later value.
DictSet(d, k, v) ==
    IF \E i \in 1..Len(d) : d[i].k = k
    THEN [i \in 1..Len(d) |-> IF d[i].k = k THEN [k |-> k, v |-> v] ELSE d[i]]
    ELSE Append(d, [k |-> k, v |-> v])

dict_zip(ks, vs) ==
    LET n == IF Len(ks) < Len(vs) THEN Len(ks) ELSE Len(vs)
        F[i \in 0..n] == IF i = 0 THEN <<>> ELSE DictSet(F[i-1], ks[i], vs[i])
    IN F[n]

Keys(d) == [i \in 1..Len(d) |-> d[i].k]
KeySet(d) == { d[i].k : i \in 1..Len(d) }
Column(t, c) == [i \in 1..Len(t) |-> t[i][c]]

\* Faulty variant: no selection by player.
player_df_all(t, steam_id) == t

\* self.df[self.df["players_info.steamId"] == steam_id]
player_df(t, steam_id) == SelectSeq(t, LAMBDA r : ElemEq(r.steamId, steam_id))

\* Series.value_counts().to_dict(): a count for every value that occurs.
value_counts(s) ==
    [v \in { s[i] : i \in 1..Len(s) } |-> Cardinality({ i \in 1..Len(s) : s[i] = v })]

\* dict.get(key, None)
get(d, key) == IF key \in DOMAIN d THEN Some(d[key]) ELSE None

\* Series.diff(): the first entry is missing, entry i is s[i] - s[i-1].
diff(s) == [i \in 1..Len(s) |-> IF i = 1 THEN NaN ELSE s[i] - s[i-1]]

\* series[1:]
From1(s) == IF Len(s) <= 1 THEN <<>> ELSE SubSeq(s, 2, Len(s))

\* series + series (both carry the same index)
SeriesAdd(a, b) == [i \in 1..Len(a) |-> a[i] + b[i]]

\* degrees(atan2(dy, dx)) on the displacements the position domain yields:
\* axis-parallel and diagonal unit steps, and (0, 0), for which atan2 is 0.
Atan2Degrees(dy, dx) ==
    CASE dy = 0 /\ dx >= 0 -> 0
      [] dy = 0 /\ dx < 0 -> 180
      [] dx = 0 /\ dy > 0 -> 90
      [] dx = 0 /\ dy < 0 -> -90
      [] dx > 0 /\ dy = dx -> 45
      [] dx > 0 /\ dy = -dx -> -45
      [] dx < 0 /\ dy = -dx -> 135
      [] dx < 0 /\ dy = dx -> -135

(***************************************************************************)
(* _normalize_angle.  Python's % takes the sign of the divisor, as the %   *)
(* of Integers does for a positive divisor.                                *)
(***************************************************************************)
\* Faulty variant: a remainder that takes the sign of the dividend.
TruncRem(a, m) == IF a >= 0 THEN a % m ELSE -((-a) % m)

normalize_angle_trunc(a) == TruncRem(a + 180, 360) - 180

_normalize_angle(a) == ((a + 180) % 360) - 180

(***************************************************************************)
(* DemoAnalyzer.players, num_players, death_stats.                         *)
(***************************************************************************)
players(t) ==
    LET unique_ids_df == drop_duplicates(t)
    IN dict_zip(Column(unique_ids_df, "steamId"), Column(unique_ids_df, "name"))

\* Faulty variant: missing ids not counted (players still lists them).
num_players_dropna(t) ==
    Len(SelectSeq(unique(Column(t, "steamId")), LAMBDA v : ~isna(v)))

num_players(t) == Len(unique(Column(t, "steamId")))

\* Faulty variant: a state without rows reported as 0.
death_stats_zero(t) ==
    LET ps == players(t)
        Entry(steam_id) ==
          LET tick_stats == value_counts(Column(player_df(t, steam_id), "state"))
          IN [alive_ticks |-> IF "Alive" \in DOMAIN tick_stats
                              THEN Some(tick_stats["Alive"]) ELSE Some(0),
              death_ticks |-> IF "Death" \in DOMAIN tick_stats
                              THEN Some(tick_stats["Death"]) ELSE Some(0)]
        F[i \in 0..Len(ps)] ==
          IF i = 0 THEN <<>>
          ELSE IF isna(ps[i].k) THEN F[i-1]
               ELSE DictSet(F[i-1], ps[i].k, Entry(ps[i].k))
    IN F[Len(ps)]

death_stats(t) ==
    LET ps == players(t)
        Entry(steam_id) ==
          LET tick_stats == value_counts(Column(player_df(t, steam_id), "state"))
          IN [alive_ticks |-> get(tick_stats, "Alive"),
              death_ticks |-> get(tick_stats, "Death")]
        F[i \in 0..Len(ps)] ==
          IF i = 0 THEN <<>>
          ELSE IF isna(ps[i].k) THEN F[i-1]
               ELSE DictSet(F[i-1], ps[i].k, Entry(ps[i].k))
    IN F[Len(ps)]

(***************************************************************************)
(* The two plotting methods.  A figure is what the method hands to         *)
(* plotly: the traces added, each with its x and y sequences, its name and *)
(* its subplot cell.  make_subplots(rows=n) raises ValueError unless n is  *)
(* an int greater than 0; the method then ends with that exception and     *)
(* shows nothing.  Marker colours (random) and legend flags carry no data  *)
(* and are left out.                                                       *)
(***************************************************************************)
NoFigure == [op |-> "none", raised |-> FALSE, traces |-> <<>>]

make_subplots_raises(rows) == rows <= 0

Scatter(xs, ys, nm, r, c) == [x |-> xs, y |-> ys, name |-> nm, row |-> r, col |-> c]

delta_mouse_movement(t) ==
    LET ps == players(t)
        num_of_players == Len(ps)
        Trace(i) ==
          LET steam_id == ps[i].k
              pdf == player_df(t, steam_id)
              delta_pitch == From1(diff(Column(pdf, "pitch")))
              delta_view == From1(diff(Column(pdf, "view")))
              delta_sum == SeriesAdd(delta_pitch, delta_view)
              ticks == Column(pdf, "tick")
          IN Scatter(ticks, delta_sum, steam_id, i, 1)
    IN IF make_subplots_raises(num_of_players)
       THEN [op |-> "delta_mouse_movement", raised |-> TRUE, traces |-> <<>>]
       ELSE [op |-> "delta_mouse_movement", raised |-> FALSE,
             traces |-> [i \in 1..num_of_players |-> Trace(i)]]

viewangle_delta_plot(t) ==
    LET ps == players(t)
        Traces(i) ==
          LET steam_id == ps[i].k
              pdf == player_df(t, steam_id)
              raw_view == From1(diff(Column(pdf, "view")))
              delta_view_angle ==
                [k \in 1..Len(raw_view) |-> _normalize_angle(raw_view[k])]
              delta_pitch_angle == From1(diff(Column(pdf, "pitch")))
              delta_x == From1(diff(Column(pdf, "x")))
              delta_y == From1(diff(Column(pdf, "y")))
              angle_of_movement ==
                [k \in 1..Len(delta_x) |-> Atan2Degrees(delta_y[k], delta_x[k])]
              ticks1 == From1(Column(pdf, "tick"))
          IN << Scatter(ticks1, delta_view_angle, steam_id, i, 1),
                Scatter(ticks1, delta_pitch_angle, steam_id, i, 2),
                Scatter(ticks1, angle_of_movement, steam_id, i, 3) >>
    IN IF make_subplots_raises(Len(ps))
       THEN [op |-> "viewangle_delta_plot", raised |-> TRUE, traces |-> <<>>]
       ELSE [op |-> "viewangle_delta_plot", raised |-> FALSE,
             traces |-> [j \in 1..(3 * Len(ps)) |->
                           Traces(((j - 1) \div 3) + 1)[((j - 1) % 3) + 1]]]

(***************************************************************************)
(* DemoAnalyzer.__init__ and its collaborators.  A demo file is the        *)
(* version of the recording stored at the path; extraction is a function   *)
(* of it.  The CSV file holds the table written to it.                     *)
(***************************************************************************)
demo_to_dataframe(d) == [extracted_from |-> d]
to_csv(table) == [exists |-> TRUE, content |-> table]
read_csv(file) == file.content
NoFile == [exists |-> FALSE]
NoInstance == [constructed |-> FALSE]
NotCalled == [called |-> FALSE]
Returned(v) == [called |-> TRUE, value |-> v]

init_reads_csv(persist, file) == persist /\ file.exists

(***************************************************************************)
(* Initial states.                                                         *)
(***************************************************************************)
AnalysisIdle ==
    /\ ret_players = NotCalled
    /\ ret_num_players = NotCalled
    /\ ret_death_stats = NotCalled
    /\ fig = NoFigure

AngleIdle == angle = 0 /\ mult = 0 /\ ret_normalize = NotCalled

CacheIdle ==
    /\ demo = 1
    /\ csv = NoFile
    /\ self_df = NoInstance
    /\ last = NoInstance
    /\ extractions = 0

Init == IsIndexTable(df) /\ AnalysisIdle /\ AngleIdle /\ CacheIdle

InitStats == IsStatTable(df) /\ AnalysisIdle /\ AngleIdle /\ CacheIdle

InitKin == IsKinTable(df) /\ AnalysisIdle /\ AngleIdle /\ CacheIdle

InitAngle ==
    /\ df = <<>> /\ AnalysisIdle /\ CacheIdle
    /\ angle \in (-MaxAngle)..MaxAngle
    /\ mult \in (-MaxTurns)..MaxTurns
    /\ ret_normalize = NotCalled

InitCache ==
    /\ df = <<>> /\ AnalysisIdle /\ AngleIdle
    /\ demo \in 1..MaxDemoVersion
    /\ csv = NoFile
    /\ self_df = NoInstance
    /\ last = NoInstance
    /\ extractions = 0

(***************************************************************************)
(* Actions: one per operation of the class.                                *)
(***************************************************************************)
Players ==
    /\ ret_players' = Returned(players(df))
    /\ UNCHANGED <<df, ret_num_players, ret_death_stats, fig>>
    /\ UNCHANGED <<angle_vars, cache_vars>>

NumPlayers ==
    /\ ret_num_players' = Returned(num_players(df))
    /\ UNCHANGED <<df, ret_players, ret_death_stats, fig>>
    /\ UNCHANGED <<angle_vars, cache_vars>>

DeathStats ==
    /\ ret_death_stats' = Returned(death_stats(df))
    /\ UNCHANGED <<df, ret_players, ret_num_players, fig>>
    /\ UNCHANGED <<angle_vars, cache_vars>>

DeltaMouseMovement ==
    /\ fig' = delta_mouse_movement(df)
    /\ UNCHANGED <<df, ret_players, ret_num_players, ret_death_stats>>
    /\ UNCHANGED <<angle_vars, cache_vars>>

ViewangleDeltaPlot ==
    /\ fig' = viewangle_delta_plot(df)
    /\ UNCHANGED <<df, ret_players, ret_num_players, ret_death_stats>>
    /\ UNCHANGED <<angle_vars, cache_vars>>

\* _normalize_angle applied to the raw difference and to the same
\* difference taken mult full turns away.
NormalizeAngle ==
    /\ ret_normalize' = [called |-> TRUE,
                         value |-> _normalize_angle(angle),
                         shifted |-> _normalize_angle(angle + 360 * mult)]
    /\ UNCHANGED <<angle, mult>>
    /\ UNCHANGED <<analysis_vars, cache_vars>>

\* DemoAnalyzer(demo_in_path, persist)
Construct(persist) ==
    /\ extractions < MaxExtractions
    /\ IF init_reads_csv(persist, csv)
       THEN /\ self_df' = [constructed |-> TRUE, df |-> read_csv(csv)]
            /\ UNCHANGED <<csv, extractions>>
            /\ last' = [constructed |-> TRUE, persist |-> persist,
                        csv_existed |-> csv.exists, extracted |-> FALSE,
                        read |-> TRUE, wrote |-> FALSE, csv_after |-> csv.exists,
                        fresh |-> demo_to_dataframe(demo)]
       ELSE /\ self_df' = [constructed |-> TRUE, df |-> demo_to_dataframe(demo)]
            /\ extractions' = extractions + 1
            /\ csv' = IF persist THEN to_csv(demo_to_dataframe(demo)) ELSE csv
            /\ last' = [constructed |-> TRUE, persist |-> persist,
                        csv_existed |-> csv.exists, extracted |-> TRUE,
                        read |-> FALSE, wrote |-> persist, csv_after |-> csv'.exists,
                        fresh |-> demo_to_dataframe(demo)]
    /\ UNCHANGED demo
    /\ UNCHANGED <<analysis_vars, angle_vars>>

ConstructPersist == Construct(TRUE)

ConstructNoPersist == Construct(FALSE)

\* The environment: the recording at the path is replaced by another one.
RecordDemo ==
    /\ \E d \in (1..MaxDemoVersion) \ {demo} : demo' = d
    /\ UNCHANGED <<csv, self_df, last, extractions>>
    /\ UNCHANGED <<analysis_vars, angle_vars>>

\* The environment: the CSV next to the demo is removed.
RemoveCsv ==
    /\ csv.exists
    /\ csv' = NoFile
    /\ UNCHANGED <<demo, self_df, last, extractions>>
    /\ UNCHANGED <<analysis_vars, angle_vars>>

Next == Players \/ NumPlayers
NextStats == Players \/ DeathStats
NextKin == Players \/ DeltaMouseMovement \/ ViewangleDeltaPlot
NextAngle == NormalizeAngle
NextCache == ConstructPersist \/ ConstructNoPersist \/ RecordDemo \/ RemoveCsv

Spec == Init /\ [][Next]_vars
SpecStats == InitStats /\ [][NextStats]_vars
SpecKin == InitKin /\ [][NextKin]_vars
SpecAngle == InitAngle /\ [][NextAngle]_vars
SpecCache == InitCache /\ [][NextCache]_vars

(***************************************************************************)
(* Reference notions the properties are stated with, taken from the table  *)
(* itself and not from the operators above.                                *)
(***************************************************************************)
IdxSet(t, id) == { i \in 1..Len(t) : t[i].steamId = id }

\* The positions of id's rows, in table order.
IdxSeq(t, id) ==
    LET S == IdxSet(t, id)
    IN [k \in 1..Cardinality(S) |->
          CHOOSE i \in S : Cardinality({ j \in S : j < i }) = k - 1]

FirstRow(t, id) == CHOOSE i \in IdxSet(t, id) : \A j \in IdxSet(t, id) : i <= j

IdsOf(t) == { t[i].steamId : i \in 1..Len(t) }

CountState(t, id, st) == Cardinality({ i \in IdxSet(t, id) : t[i].state = st })

Optional(n) == IF n = 0 THEN None ELSE Some(n)

Plotted == fig.op # "none" /\ ~fig.raised

(***************************************************************************)
(* C1: a row whose steamId is missing contributes no key to the players    *)
(* mapping, no key to death_stats and no per-player series to either plot. *)
(***************************************************************************)
NullIdNeverContributes ==
    /\ ret_players.called => NaN \notin KeySet(ret_players.value)
    /\ ret_death_stats.called => NaN \notin KeySet(ret_death_stats.value)
    /\ Plotted => \A j \in 1..Len(fig.traces) : fig.traces[j].name # NaN

(***************************************************************************)
(* C2: num_players is the number of distinct steamId values that are not   *)
(* missing.                                                                *)
(***************************************************************************)
NumPlayersCountsNonNull ==
    ret_num_players.called =>
        ret_num_players.value = Cardinality(IdsOf(df) \ {NaN})

(***************************************************************************)
(* C3: num_players equals the number of entries of the players mapping,    *)
(* for every table, also one with missing steamIds and the empty one.      *)
(***************************************************************************)
NumPlayersEqualsLenPlayers ==
    (ret_players.called /\ ret_num_players.called) =>
        ret_num_players.value = Len(ret_players.value)

NumPlayersEqualsLenPlayersWitness ==
    /\ ret_players.called /\ ret_num_players.called
    /\ NaN \in IdsOf(df) /\ "P" \in IdsOf(df) /\ "Q" \in IdsOf(df)
    /\ Cardinality(IdxSet(df, NaN)) >= 2
    /\ ret_num_players.value = 3

(***************************************************************************)
(* C4: the players mapping has exactly one entry per distinct steamId of   *)
(* the table, its keys stand in the order of each steamId's first row, and *)
(* the name stored is the name of that first row, also when a later row of *)
(* the same steamId carries another name.                                  *)
(***************************************************************************)
PlayersFirstAppearance ==
    ret_players.called =>
        LET d == ret_players.value
        IN /\ KeySet(d) = IdsOf(df)
           /\ Len(d) = Cardinality(IdsOf(df))
           /\ \A j \in 1..Len(d) : d[j].v = df[FirstRow(df, d[j].k)].name
           /\ \A j, k \in 1..Len(d) :
                j < k => FirstRow(df, d[j].k) < FirstRow(df, d[k].k)

PlayersFirstAppearanceWitness ==
    /\ ret_players.called
    /\ Len(df) >= 3
    /\ df[1].steamId = "Q" /\ df[2].steamId = "P" /\ df[3].steamId = "Q"
    /\ df[1].name # df[3].name
    /\ Keys(ret_players.value) = <<"Q", "P">>
    /\ ret_players.value[1].v = df[1].name

(***************************************************************************)
(* C5: for every player, death_stats reports alive_ticks as the number of  *)
(* the player's rows whose state is Alive and death_ticks as the number    *)
(* whose state is Death, each None (never 0) when there is no such row;    *)
(* rows of other players and rows in any other state change neither.       *)
(***************************************************************************)
DeathStatsCounts ==
    ret_death_stats.called =>
        LET s == ret_death_stats.value
        IN /\ KeySet(s) = IdsOf(df) \ {NaN}
           /\ Len(s) = Cardinality(KeySet(s))
           /\ \A j \in 1..Len(s) :
                /\ s[j].v.alive_ticks = Optional(CountState(df, s[j].k, "Alive"))
                /\ s[j].v.death_ticks = Optional(CountState(df, s[j].k, "Death"))

DeathStatsCountsWitness ==
    /\ ret_death_stats.called
    /\ Len(df) = 3
    /\ df[1].steamId = "P" /\ df[1].state = "Alive"
    /\ df[2].steamId = "Q" /\ df[2].state = "Death"
    /\ df[3].steamId = "P" /\ df[3].state = "Respawning"
    /\ ret_death_stats.value[1].v = [alive_ticks |-> Some(1), death_ticks |-> None]
    /\ ret_death_stats.value[2].v = [alive_ticks |-> None, death_ticks |-> Some(1)]

(***************************************************************************)
(* C6: _normalize_angle(a) is the value r with -180 <= r < 180 congruent   *)
(* to a modulo 360, for a of either sign; it is unchanged by adding whole  *)
(* turns to a; the raw difference -340 (view 350 -> 10) normalizes to 20.  *)
(***************************************************************************)
NormalizeAngleRange ==
    ret_normalize.called =>
        /\ -180 <= ret_normalize.value /\ ret_normalize.value < 180
        /\ (ret_normalize.value - angle) % 360 = 0
        /\ ret_normalize.shifted = ret_normalize.value
        /\ angle = 10 - 350 => ret_normalize.value = 20

NormalizeAngleRangeWitness ==
    /\ ret_normalize.called
    /\ angle = -340 /\ mult = -1
    /\ ret_normalize.value = 20

(***************************************************************************)
(* C7: for a player with n rows every plotted series has n - 1 entries and *)
(* entry k is taken from the player's rows k and k + 1 in table order      *)
(* (never from an interleaved row of another player): the pitch series is  *)
(* the plain difference, the view series the normalized difference, the    *)
(* movement angle that of the x and y differences, the mouse-movement      *)
(* series the sum of the pitch and view differences.  A player with one    *)
(* row yields empty series.                                                *)
(***************************************************************************)
ExpectedDelta(op, col, a, b) ==
    IF op = "delta_mouse_movement"
    THEN (b.pitch - a.pitch) + (b.view - a.view)
    ELSE CASE col = 1 -> _normalize_angle(b.view - a.view)
           [] col = 2 -> b.pitch - a.pitch
           [] col = 3 -> Atan2Degrees(b.y - a.y, b.x - a.x)

DeltasWithinPartition ==
    Plotted =>
        \A j \in 1..Len(fig.traces) :
            LET tr == fig.traces[j]
                rows == IdxSeq(df, tr.name)
            IN tr.name # NaN =>
                 /\ Len(tr.y) = Len(rows) - 1
                 /\ \A k \in 1..Len(tr.y) :
                      tr.y[k] = ExpectedDelta(fig.op, tr.col, df[rows[k]], df[rows[k+1]])

DeltasWithinPartitionWitness ==
    /\ fig.op = "viewangle_delta_plot" /\ ~fig.raised
    /\ Len(df) = 3
    /\ df[1].steamId = "P" /\ df[2].steamId = "Q" /\ df[3].steamId = "P"
    /\ df[1].view = 350 /\ df[2].view = 350 /\ df[3].view = 10
    /\ df[1].pitch = 0 /\ df[2].pitch = 5 /\ df[3].pitch = 5
    /\ fig.traces[1].y = <<20>> /\ fig.traces[2].y = <<5>>
    /\ fig.traces[4].name = "Q" /\ fig.traces[4].y = <<>>

(***************************************************************************)
(* C8: in every series emitted, by delta_mouse_movement and by             *)
(* viewangle_delta_plot, the tick sequence is as long as the delta         *)
(* sequence and the k-th delta stands against the tick of the later of the *)
(* two rows it was taken from.                                             *)
(***************************************************************************)
TickOfLaterRow ==
    Plotted =>
        \A j \in 1..Len(fig.traces) :
            LET tr == fig.traces[j]
                rows == IdxSeq(df, tr.name)
            IN /\ Len(tr.x) = Len(tr.y)
               /\ tr.name # NaN =>
                    \A k \in 1..Len(tr.y) : tr.x[k] = df[rows[k+1]].tick

(***************************************************************************)
(* C9: on a table with no identifiable player (no rows, or only rows with  *)
(* a missing steamId) players, death_stats and both plots end without an   *)
(* error and their per-player output is empty.                             *)
(***************************************************************************)
NoPlayersNoError ==
    (IdsOf(df) \subseteq {NaN}) =>
        /\ ret_players.called => ret_players.value = <<>>
        /\ ret_death_stats.called => ret_death_stats.value = <<>>
        /\ fig.op # "none" => ~fig.raised /\ fig.traces = <<>>

(***************************************************************************)
(* C10: the CSV cache is transparent.  A construction with persist=True    *)
(* extracts exactly when no CSV exists and leaves a CSV behind; one with   *)
(* persist=False always extracts and neither reads nor writes the CSV; and *)
(* the table held equals the extraction of the demo as it is at            *)
(* construction time, also when the demo changed after the CSV was written.*)
(***************************************************************************)
CacheTransparent ==
    last.constructed =>
        /\ last.persist => (last.extracted <=> ~last.csv_existed) /\ last.csv_after
        /\ ~last.persist => last.extracted /\ ~last.read /\ ~last.wrote
        /\ self_df.df = last.fresh

====
